---- MODULE Spec2Model ----
(***************************************************************************)
(* Model of server.js: an express application with four POST handlers      *)
(* (/send-otp, /resend-otp, /verify-otp, /save-user-details) over two      *)
(* mongoose collections, User and OTP.  Every `await` of a handler is one  *)
(* atomic store operation; handlers of different requests interleave at    *)
(* their awaits.                                                           *)
(***************************************************************************)
EXTENDS Integers, Sequences, FiniteSets, Bags, TLC

(***************************************************************************)
(* Bounds of the model.                                                    *)
(***************************************************************************)
\* The observer counts successful verifications up to MaxOk and mismatched
\* ones up to MaxWrong.
MaxOk == 2
MaxWrong == 2

(***************************************************************************)
(* Values.                                                                 *)
(***************************************************************************)
\* The JavaScript value `undefined` (a body field that is missing).
Undefined == "<undefined>"

\* Falsy that takes only a missing field for false, as x === undefined does.
Falsy_OnlyUndefined(x) == x = Undefined

\* !x of JavaScript, for x a string or undefined.
Falsy(x) == x = Undefined \/ x = ""

\* The phone numbers that requests carry.
Phones == {"5550001", "5550099"}

\* The request tasks that can be in flight at the same time.
Reqs == {"r1", "r2"}

\* The values of Date.now().
Times == {0, 1}

\* The phone the observer follows.  The handlers only compare phone numbers,
\* so what holds of this phone holds of every phone; the other phones are
\* the traffic around it.
Watched == "5550001"

\* Math.floor(100000 + Math.random() * 900000): OtpBase + u, where
\* u = floor(Math.random() * OtpSpan) is in 0..OtpSpan-1.
OtpBase == 100000
OtpSpan == 900000

\* The values of floor(Math.random() * OtpSpan) that the model draws.
Draws == {0, OtpSpan - 1}

Digit == <<"0", "1", "2", "3", "4", "5", "6", "7", "8", "9">>

\* Number.prototype.toString() of a non-negative integer.
RECURSIVE NumToString(_)
NumToString(n) ==
  IF n < 10 THEN Digit[n + 1]
  ELSE NumToString(n \div 10) \o Digit[(n % 10) + 1]

\* GenerateOtp without the offset, as Math.floor(Math.random() * 900000) gives.
GenerateOtp_NoOffset(u) == NumToString(u)

\* const otp = Math.floor(100000 + Math.random() * 900000).toString();
GenerateOtp(u) == NumToString(OtpBase + u)

Codes == {GenerateOtp(u) : u \in Draws}

\* status 0: no response yet.  sent is the otp field of the response.  was,
\* tries, draw and made are notes of the observer: the code that an issue
\* replaces, the mismatched attempts that went before a successful
\* verification, the value of floor(Math.random() * OtpSpan) behind the code
\* sent (-1: none), and whether the request has created a User.
NoReq == [route |-> "none", phone |-> Undefined, otp |-> Undefined,
          name |-> Undefined, dob |-> Undefined, gender |-> Undefined,
          status |-> 0, message |-> "", sent |-> Undefined, was |-> Undefined,
          tries |-> 0, draw |-> -1, made |-> FALSE]

\* The request bodies clients send.  A body field is missing (undefined),
\* empty or a non-empty string.
PhoneBodies(route) ==
  {[NoReq EXCEPT !.route = route, !.phone = p] : p \in Phones \cup {"", Undefined}}


\* For the observed phone every code that can be stored and one that cannot;
\* for the other phones one code, which the stored code may or may not equal.
VerifyBodies ==
  {[NoReq EXCEPT !.route = "verify-otp", !.phone = Watched, !.otp = c] :
     c \in Codes \cup {"000000"}}
  \cup {[NoReq EXCEPT !.route = "verify-otp", !.phone = p, !.otp = GenerateOtp(0)] :
          p \in Phones \ {Watched}}
  \cup {[NoReq EXCEPT !.route = "verify-otp", !.phone = p, !.otp = c] :
          p \in {"", Undefined}, c \in {"000000"}}
  \cup {[NoReq EXCEPT !.route = "verify-otp", !.phone = Watched, !.otp = c] :
          c \in {"", Undefined}}

Profile == [name |-> "A", dob |-> "2000-01-01", gender |-> "F"]

\* The profile with at most one of its fields missing or empty.
Profiles ==
  {Profile}
  \cup {[Profile EXCEPT !.name = x] : x \in {"", Undefined}}
  \cup {[Profile EXCEPT !.dob = x] : x \in {"", Undefined}}
  \cup {[Profile EXCEPT !.gender = x] : x \in {"", Undefined}}

\* The profile is saved for the observed phone; requests for the other
\* phones are those of the OTP routes.
SaveBodies ==
  {[NoReq EXCEPT !.route = "save-user-details", !.phone = p,
                 !.name = Profile.name, !.dob = Profile.dob,
                 !.gender = Profile.gender] : p \in {Watched, "", Undefined}}
  \cup {[NoReq EXCEPT !.route = "save-user-details", !.phone = Watched,
                       !.name = f.name, !.dob = f.dob, !.gender = f.gender] :
          f \in Profiles}

VARIABLES
  users,    \* the User collection, a bag of documents
  otps,     \* the OTP collection, a bag of documents
  pc,       \* pc[r]: the await at which request task r stands, "idle" or "done"
  req,      \* req[r]: route and body of the request of task r, and its response
  stale,    \* stale[r]: the route of the task whose upsert for r's phone has
            \* landed since r's OTP lookup, or while r stood at its own
            \* upsert; "none" when there is no such upsert
  live,     \* the code issued last for phone Watched
  ok,       \* successful verifications of the current issue of Watched
  wrong,    \* mismatched verifications of the current issue of Watched while
            \* it is pending
  verified  \* a verify-otp for Watched has answered 200

vars == <<users, otps, pc, req, stale, live, ok, wrong, verified>>
store == <<users, otps>>
observer == <<live, ok, wrong, verified>>

(***************************************************************************)
(* The store (mongoose Model operations).                                  *)
(***************************************************************************)
\* The documents of coll whose phone is p: the filter { phone }.
Matching(coll, p) == {d \in BagToSet(coll) : d.phone = p}

\* Number of documents of coll whose phone is p.
CountOf(coll, p) == BagCardinality([d \in Matching(coll, p) |-> coll[d]])

\* Model.findOne({ phone }) found a document (the result is not null).
Found(coll, p) == Matching(coll, p) # {}

\* The document Model.findOne({ phone }) returns, when it finds one.
FindOne(coll, p) == CHOOSE d \in Matching(coll, p) : TRUE

Insert(coll, d) == coll (+) SetToBag({d})

Remove(coll, d) == coll (-) SetToBag({d})

\* new User({ phone }): name, dob, gender unset, createdAt defaults to Date.now.
NewUser(p, t) ==
  [phone |-> p, name |-> Undefined, dob |-> Undefined, gender |-> Undefined,
   createdAt |-> t]

\* UserInsertAllowed without the unique index.
UserInsertAllowed_NoIndex(coll, p) == TRUE

\* The unique index on User.phone: an insert of a second document with the
\* same phone is refused with a duplicate-key error.
UserInsertAllowed(coll, p) == ~Found(coll, p)

\* UpsertOtp as an insert that never looks for the phone's document.
UpsertOtp_InsertOnly(coll, p, code) == Insert(coll, [phone |-> p, otp |-> code])

\* UpsertOtp that inserts when absent and leaves an existing document alone.
UpsertOtp_KeepFirst(coll, p, code) ==
  IF Found(coll, p) THEN coll ELSE Insert(coll, [phone |-> p, otp |-> code])

\* OTP.findOneAndUpdate({ phone }, { otp, createdAt }, { upsert: true, new: true })
\* createdAt of an OTP document is written here and read nowhere; the model
\* leaves it out of the document.
UpsertOtp(coll, p, code) ==
  IF Found(coll, p)
  THEN Insert(Remove(coll, FindOne(coll, p)), [FindOne(coll, p) EXCEPT !.otp = code])
  ELSE Insert(coll, [phone |-> p, otp |-> code])

\* DeleteOneOtp that removes nothing.
DeleteOneOtp_Keep(coll, p) == coll

\* OTP.deleteOne({ phone }): removes one match, nothing when there is none.
DeleteOneOtp(coll, p) ==
  IF Found(coll, p) THEN Remove(coll, FindOne(coll, p)) ELSE coll

\* UpdateUser with { upsert: true }: creates the User when there is none.
UpdateUser_Upsert(coll, p, n, d, g) ==
  IF Found(coll, p)
  THEN Insert(Remove(coll, FindOne(coll, p)),
              [FindOne(coll, p) EXCEPT !.name = n, !.dob = d, !.gender = g])
  ELSE Insert(coll, [phone |-> p, name |-> n, dob |-> d, gender |-> g,
                     createdAt |-> 0])

\* User.findOneAndUpdate({ phone }, { name, dob, gender }, { new: true })
UpdateUser(coll, p, n, d, g) ==
  IF Found(coll, p)
  THEN Insert(Remove(coll, FindOne(coll, p)),
              [FindOne(coll, p) EXCEPT !.name = n, !.dob = d, !.gender = g])
  ELSE coll

(***************************************************************************)
(* Responses.                                                              *)
(***************************************************************************)
Min(a, b) == IF a < b THEN a ELSE b

\* res.status(s).json({ success, message, otp: sent }): the response of r.
Respond(r, s, m, sent) ==
  /\ pc' = [pc EXCEPT ![r] = "done"]
  /\ req' = [req EXCEPT ![r] = [@ EXCEPT !.status = s, !.message = m, !.sent = sent]]

\* res.json({ success: true, message, otp }) of send-otp and resend-otp.
RespondIssued(r, m, u, code) ==
  /\ pc' = [pc EXCEPT ![r] = "done"]
  /\ req' = [req EXCEPT ![r] = [@ EXCEPT !.status = 200, !.message = m, !.sent = code,
                                         !.draw = u,
                                         !.was = IF req[r].phone = Watched
                                                 THEN live ELSE Undefined]]

\* Validation of the body fails before the first await.
Reject(r, body, m) ==
  /\ pc' = [pc EXCEPT ![r] = "done"]
  /\ req' = [req EXCEPT ![r] = [body EXCEPT !.status = 400, !.message = m]]

\* Validation passes: the handler reaches its first await.
Accept(r, body, at) ==
  /\ pc' = [pc EXCEPT ![r] = at]
  /\ req' = [req EXCEPT ![r] = body]

\* The handler of r has returned: the task is free for the next request.
Close(r) ==
  /\ pc[r] = "done"
  /\ pc' = [pc EXCEPT ![r] = "idle"]
  /\ req' = [req EXCEPT ![r] = NoReq]
  /\ stale' = [stale EXCEPT ![r] = "none"]
  /\ UNCHANGED <<store, observer>>

\* A response is on its way out: the handler that sent it returns before
\* any other task runs on.
Quiet == \A q \in Reqs : pc[q] # "done"

\* Task r is free to take a request.
Free(r) == Quiet /\ pc[r] = "idle"

\* Task r resumes at the await named at.
Awaits(r, at) == Quiet /\ pc[r] = at

\* Observer: an upsert of code for phone p starts a new issue.
Issue(p, code) ==
  IF p = Watched
  THEN /\ live' = code
       /\ ok' = 0
       /\ wrong' = 0
       /\ UNCHANGED verified
  ELSE UNCHANGED observer

(***************************************************************************)
(* POST /send-otp                                                          *)
(***************************************************************************)
StartSendOtp(r) ==
  /\ Free(r)
  /\ \E body \in PhoneBodies("send-otp") :
       IF Falsy(body.phone)
       THEN Reject(r, body, "Phone number is required")
       ELSE Accept(r, body, "send_findUser")
  /\ UNCHANGED <<store, stale, observer>>

\* SendFindUser that refreshes createdAt of the User it finds.
SendFindUser_Touch(r) ==
  /\ Awaits(r, "send_findUser")
  /\ IF Found(users, req[r].phone)
     THEN /\ \E t \in Times :
               users' = Insert(Remove(users, FindOne(users, req[r].phone)),
                               [FindOne(users, req[r].phone) EXCEPT !.createdAt = t])
          /\ pc' = [pc EXCEPT ![r] = "send_upsertOtp"]
     ELSE /\ pc' = [pc EXCEPT ![r] = "send_saveUser"]
          /\ UNCHANGED users
  /\ UNCHANGED <<otps, req, stale, observer>>

\* let user = await User.findOne({ phone });
SendFindUser(r) ==
  /\ Awaits(r, "send_findUser")
  /\ pc' = [pc EXCEPT ![r] = IF Found(users, req[r].phone)
                             THEN "send_upsertOtp" ELSE "send_saveUser"]
  /\ UNCHANGED <<store, req, stale, observer>>

\* user = await new User({ phone }).save();
SendSaveUser(r) ==
  /\ Awaits(r, "send_saveUser")
  /\ IF UserInsertAllowed(users, req[r].phone)
     THEN /\ \E t \in Times : users' = Insert(users, NewUser(req[r].phone, t))
          /\ pc' = [pc EXCEPT ![r] = "send_upsertOtp"]
          /\ req' = [req EXCEPT ![r].made = TRUE]
     ELSE /\ Respond(r, 500, "Server error", Undefined)
          /\ UNCHANGED users
  /\ UNCHANGED <<otps, stale, observer>>

\* The tasks an upsert of task r for phone p overtakes, noted for the observed
\* phone: a verify-otp that has read the record of p and not yet deleted it,
\* a send-otp or resend-otp that stands at its own upsert for p.
Overtaken(r, p) ==
  [q \in Reqs |->
     IF /\ p = Watched /\ q # r /\ req[q].phone = p
        /\ pc[q] \in {"verify_deleteOtp", "send_upsertOtp", "resend_upsertOtp"}
     THEN req[r].route ELSE stale[q]]

\* SendUpsertOtp that answers with a code generated anew.
SendUpsertOtp_Regenerate(r) ==
  /\ Awaits(r, "send_upsertOtp")
  /\ \E u \in Draws, v \in Draws :
       /\ otps' = UpsertOtp(otps, req[r].phone, GenerateOtp(u))
       /\ Issue(req[r].phone, GenerateOtp(v))
       /\ RespondIssued(r, "OTP sent successfully", v, GenerateOtp(v))
  /\ stale' = Overtaken(r, req[r].phone)
  /\ UNCHANGED users

\* generate the code; await OTP.findOneAndUpdate(...); res.json({ ..., otp })
SendUpsertOtp(r) ==
  /\ Awaits(r, "send_upsertOtp")
  /\ \E u \in Draws :
       LET code == GenerateOtp(u) IN
       /\ otps' = UpsertOtp(otps, req[r].phone, code)
       /\ Issue(req[r].phone, code)
       /\ RespondIssued(r, "OTP sent successfully", u, code)
  /\ stale' = Overtaken(r, req[r].phone)
  /\ UNCHANGED users

(***************************************************************************)
(* POST /resend-otp                                                        *)
(***************************************************************************)
StartResendOtp(r) ==
  /\ Free(r)
  /\ \E body \in PhoneBodies("resend-otp") :
       IF Falsy(body.phone)
       THEN Reject(r, body, "Phone number is required")
       ELSE Accept(r, body, "resend_upsertOtp")
  /\ UNCHANGED <<store, stale, observer>>

\* ResendUpsertOtp that creates the User when there is none, as send-otp does.
ResendUpsertOtp_EnsureUser(r) ==
  /\ Awaits(r, "resend_upsertOtp")
  /\ \E u \in Draws :
       LET code == GenerateOtp(u) IN
       /\ otps' = UpsertOtp(otps, req[r].phone, code)
       /\ Issue(req[r].phone, code)
       /\ RespondIssued(r, "OTP resent successfully", u, code)
  /\ stale' = Overtaken(r, req[r].phone)
  /\ users' = IF Found(users, req[r].phone) THEN users
              ELSE Insert(users, NewUser(req[r].phone, 0))

\* generate the code; await OTP.findOneAndUpdate(...); res.json({ ..., otp })
ResendUpsertOtp(r) ==
  /\ Awaits(r, "resend_upsertOtp")
  /\ \E u \in Draws :
       LET code == GenerateOtp(u) IN
       /\ otps' = UpsertOtp(otps, req[r].phone, code)
       /\ Issue(req[r].phone, code)
       /\ RespondIssued(r, "OTP resent successfully", u, code)
  /\ stale' = Overtaken(r, req[r].phone)
  /\ UNCHANGED users

(***************************************************************************)
(* POST /verify-otp                                                        *)
(***************************************************************************)
StartVerifyOtp(r) ==
  /\ Free(r)
  /\ \E body \in VerifyBodies :
       IF Falsy(body.phone) \/ Falsy(body.otp)
       THEN Reject(r, body, "Phone number and OTP are required")
       ELSE Accept(r, body, "verify_findOtp")
  /\ UNCHANGED <<store, stale, observer>>

\* OtpMatches that accepts every code.
OtpMatches_Any(record, c) == TRUE

\* if (record.otp === otp)
OtpMatches(record, c) == record.otp = c

\* The branch verify-otp takes on the record it looks up for phone p, when the
\* request carries code c.
VerifyBranch(coll, p, c) ==
  IF ~Found(coll, p) THEN "not_found"
  ELSE IF OtpMatches(FindOne(coll, p), c) THEN "match"
  ELSE "mismatch"

\* VerifyFindOtp that drops the record when the code does not match.
VerifyFindOtp_DropOnMismatch(r) ==
  /\ Awaits(r, "verify_findOtp")
  /\ IF VerifyBranch(otps, req[r].phone, req[r].otp) = "not_found"
     THEN /\ Respond(r, 404, "OTP not found", Undefined)
          /\ UNCHANGED <<otps, stale, wrong>>
     ELSE IF VerifyBranch(otps, req[r].phone, req[r].otp) = "match"
     THEN /\ pc' = [pc EXCEPT ![r] = "verify_deleteOtp"]
          /\ UNCHANGED <<otps, req, stale, wrong>>
     ELSE /\ Respond(r, 400, "Invalid OTP", Undefined)
          /\ otps' = DeleteOneOtp(otps, req[r].phone)
          /\ wrong' = IF req[r].phone = Watched THEN Min(wrong + 1, MaxWrong) ELSE wrong
          /\ UNCHANGED stale
  /\ UNCHANGED <<users, live, ok, verified>>

\* const record = await OTP.findOne({ phone }); and the branches on it
VerifyFindOtp(r) ==
  /\ Awaits(r, "verify_findOtp")
  /\ IF VerifyBranch(otps, req[r].phone, req[r].otp) = "not_found"
     THEN /\ Respond(r, 404, "OTP not found", Undefined)
          /\ UNCHANGED <<stale, wrong>>
     ELSE IF VerifyBranch(otps, req[r].phone, req[r].otp) = "match"
     THEN /\ pc' = [pc EXCEPT ![r] = "verify_deleteOtp"]
          /\ UNCHANGED <<req, stale, wrong>>
     ELSE /\ Respond(r, 400, "Invalid OTP", Undefined)
          /\ wrong' = IF req[r].phone = Watched THEN Min(wrong + 1, MaxWrong) ELSE wrong
          /\ UNCHANGED stale
  /\ UNCHANGED <<store, live, ok, verified>>

\* await OTP.deleteOne({ phone }); res.json({ success: true, ... })
VerifyDeleteOtp(r) ==
  /\ Awaits(r, "verify_deleteOtp")
  /\ otps' = DeleteOneOtp(otps, req[r].phone)
  /\ pc' = [pc EXCEPT ![r] = "done"]
  /\ req' = [req EXCEPT ![r] = [@ EXCEPT !.status = 200,
                                         !.message = "OTP verified successfully",
                                         !.tries = IF req[r].phone = Watched /\ stale[r] = "none"
                                                   THEN wrong ELSE 0]]
  /\ IF req[r].phone = Watched /\ stale[r] = "none"
     THEN ok' = Min(ok + 1, MaxOk) /\ wrong' = 0
     ELSE UNCHANGED <<ok, wrong>>
  /\ verified' = (verified \/ req[r].phone = Watched)
  /\ UNCHANGED <<users, stale, live>>

(***************************************************************************)
(* POST /save-user-details                                                 *)
(***************************************************************************)
StartSaveUserDetails(r) ==
  /\ Free(r)
  /\ \E body \in SaveBodies :
       IF Falsy(body.phone) \/ Falsy(body.name) \/ Falsy(body.dob) \/ Falsy(body.gender)
       THEN Reject(r, body, "All fields are required")
       ELSE Accept(r, body, "save_updateUser")
  /\ UNCHANGED <<store, stale, observer>>

\* SaveUpdateUser that refuses while an OTP record of the phone is pending.
SaveUpdateUser_RequireVerified(r) ==
  /\ Awaits(r, "save_updateUser")
  /\ IF Found(otps, req[r].phone)
     THEN /\ Respond(r, 400, "OTP not verified", Undefined)
          /\ UNCHANGED users
     ELSE /\ users' = UpdateUser(users, req[r].phone, req[r].name, req[r].dob,
                                 req[r].gender)
          /\ IF Found(users, req[r].phone)
             THEN Respond(r, 200, "User details saved successfully", Undefined)
             ELSE Respond(r, 404, "User not found", Undefined)
  /\ UNCHANGED <<otps, stale, observer>>

\* const user = await User.findOneAndUpdate(...); if (!user) 404 else 200
SaveUpdateUser(r) ==
  /\ Awaits(r, "save_updateUser")
  /\ users' = UpdateUser(users, req[r].phone, req[r].name, req[r].dob, req[r].gender)
  /\ IF Found(users, req[r].phone)
     THEN Respond(r, 200, "User details saved successfully", Undefined)
     ELSE Respond(r, 404, "User not found", Undefined)
  /\ UNCHANGED <<otps, stale, observer>>

(***************************************************************************)
(* catch (err): the store operation r awaits throws.                       *)
(***************************************************************************)
\* StoreError without the catch block: the rejection is unhandled, the
\* process exits and no request in flight is answered.
StoreError_Crash(r) ==
  /\ Quiet /\ pc[r] # "idle"
  /\ pc' = [q \in Reqs |-> "idle"]
  /\ req' = [q \in Reqs |-> NoReq]
  /\ stale' = [q \in Reqs |-> "none"]
  /\ UNCHANGED <<store, observer>>

StoreError(r) ==
  /\ Quiet /\ pc[r] # "idle"
  /\ Respond(r, 500, "Server error", Undefined)
  /\ UNCHANGED <<store, stale, observer>>

(***************************************************************************)
(* Specifications.                                                         *)
(***************************************************************************)
Init ==
  /\ users = EmptyBag
  /\ otps = EmptyBag
  /\ pc = [r \in Reqs |-> "idle"]
  /\ req = [r \in Reqs |-> NoReq]
  /\ stale = [r \in Reqs |-> "none"]
  /\ live = Undefined
  /\ ok = 0
  /\ wrong = 0
  /\ verified = FALSE

\* Requests are handled concurrently: a task may take a request while
\* another is in flight.
Next ==
  \E r \in Reqs :
    \/ StartSendOtp(r)
    \/ StartResendOtp(r)
    \/ StartVerifyOtp(r)
    \/ StartSaveUserDetails(r)
    \/ SendFindUser(r)
    \/ SendSaveUser(r)
    \/ SendUpsertOtp(r)
    \/ ResendUpsertOtp(r)
    \/ VerifyFindOtp(r)
    \/ VerifyDeleteOtp(r)
    \/ SaveUpdateUser(r)
    \/ StoreError(r)
    \/ Close(r)

Spec == Init /\ [][Next]_vars

\* Requests arrive one after the other: a request is taken when none is in
\* flight.
AllIdle == \A q \in Reqs : pc[q] = "idle"

SeqNext ==
  \E r \in Reqs :
    \/ AllIdle /\ StartSendOtp(r)
    \/ AllIdle /\ StartResendOtp(r)
    \/ AllIdle /\ StartVerifyOtp(r)
    \/ AllIdle /\ StartSaveUserDetails(r)
    \/ SendFindUser(r)
    \/ SendSaveUser(r)
    \/ SendUpsertOtp(r)
    \/ ResendUpsertOtp(r)
    \/ VerifyFindOtp(r)
    \/ VerifyDeleteOtp(r)
    \/ SaveUpdateUser(r)
    \/ StoreError(r)
    \/ Close(r)

SeqSpec == Init /\ [][SeqNext]_vars

\* A step of the handler of task r after it has taken its request: an
\* awaited store operation settles (it resolves, or it rejects and the catch
\* block runs), or the handler returns.
Advance(r) ==
  \/ SendFindUser(r)
  \/ SendSaveUser(r)
  \/ SendUpsertOtp(r)
  \/ ResendUpsertOtp(r)
  \/ VerifyFindOtp(r)
  \/ VerifyDeleteOtp(r)
  \/ SaveUpdateUser(r)
  \/ StoreError(r)
  \/ Close(r)

\* Requests one after the other, and every awaited store operation settles:
\* the event loop resumes each handler.
SeqFairSpec == SeqSpec /\ \A r \in Reqs : WF_vars(Advance(r))

TypeOK ==
  /\ ok \in 0..MaxOk /\ wrong \in 0..MaxWrong /\ verified \in BOOLEAN
  /\ \A r \in Reqs : pc[r] = "idle" <=> req[r] = NoReq
  /\ \A r \in Reqs : stale[r] \in {"none", "send-otp", "resend-otp"}
(***************************************************************************)
(* Claims.  A response is read in the state the handler leaves when it     *)
(* sends it: pc[r] = "done", with the request and the response in req[r]   *)
(* and the store as the handler left it.                                   *)
(***************************************************************************)
Responded(r, route) == pc[r] = "done" /\ req[r].route = route

\* The code of the OTP document of phone p.
StoredOtp(p) == FindOne(otps, p).otp

\* C1: requests handled one after the other.  A verify-otp for the observed
\* phone that carries the code issued last, and is not cut short by a store
\* error, answers 200 when it is the first such request since the code was
\* issued (ok becomes 1) and 404 when one has succeeded before (ok stays 1):
\* the issued code verifies exactly once, and the record is gone afterwards.
C1_VerifiesExactlyOnce ==
  \A r \in Reqs :
    ( /\ Responded(r, "verify-otp")
      /\ req[r].phone = Watched
      /\ live # Undefined
      /\ req[r].otp = live
      /\ req[r].status # 500 )
    => /\ req[r].status \in {200, 404}
       /\ ok = 1
       /\ ~Found(otps, Watched)

\* C1 witness: the second verify-otp with the issued code has answered 404.
C1_Witness ==
  \E r \in Reqs :
    /\ Responded(r, "verify-otp")
    /\ req[r].phone = Watched /\ req[r].otp = live
    /\ req[r].status = 404 /\ ok = 1

\* C2: requests handled one after the other.  A verify-otp for the observed
\* phone whose code differs from the stored one answers 400 "Invalid OTP" and
\* leaves exactly the issued record in the store, whatever the number of such
\* attempts; no verify-otp with another code than the stored one answers 200;
\* and after wrong attempts a verify-otp with the stored code answers 200.
C2_WrongCodeKeepsRecord ==
  \A r \in Reqs :
    ( Responded(r, "verify-otp") /\ req[r].phone = Watched /\ ~Falsy(req[r].otp)
      /\ req[r].status # 500 )
    => /\ (Found(otps, Watched) /\ StoredOtp(Watched) # req[r].otp)
            => req[r].status = 400 /\ req[r].message = "Invalid OTP"
       /\ (req[r].status = 400)
            => /\ CountOf(otps, Watched) = 1
               /\ StoredOtp(Watched) = live
               /\ StoredOtp(Watched) # req[r].otp
               /\ wrong >= 1
       /\ (req[r].status = 200) => req[r].otp = live
       /\ (req[r].otp = live)
            => req[r].status \in {200, 404} /\ ~Found(otps, Watched)

\* C2 witness: after MaxWrong wrong attempts the stored code has verified.
C2_Witness ==
  \E r \in Reqs :
    /\ Responded(r, "verify-otp")
    /\ req[r].phone = Watched /\ req[r].otp = live
    /\ req[r].status = 200 /\ req[r].tries = MaxWrong /\ ok = 1

\* C3 as claimed: when a resend-otp for the observed phone has completed, a
\* verify-otp with the code issued before it does not match the record.
C3_PreviousCodeFails ==
  \A r \in Reqs :
    ( /\ Responded(r, "resend-otp") /\ req[r].status = 200
      /\ req[r].phone = Watched /\ req[r].was # Undefined )
    => VerifyBranch(otps, Watched, req[r].was) # "match"

\* C3 amended: requests handled one after the other.  When a resend-otp has
\* completed, the one record of its phone holds the code it returned, a
\* verify-otp matches that code and no other, so the code issued before
\* fails unless the resend drew it again; and every verify-otp that answers
\* 200 carried the code issued last.
C3_OnlyNewestVerifies ==
  \A r \in Reqs :
    /\ ( Responded(r, "resend-otp") /\ req[r].status = 200
         /\ req[r].phone = Watched )
       => /\ live = req[r].sent
          /\ CountOf(otps, Watched) = 1
          /\ \A c \in Codes \cup {"000000"} :
               VerifyBranch(otps, Watched, c) =
                 IF c = req[r].sent THEN "match" ELSE "mismatch"
          /\ (req[r].was \notin {Undefined, req[r].sent})
               => VerifyBranch(otps, Watched, req[r].was) = "mismatch"
    /\ ( Responded(r, "verify-otp") /\ req[r].status = 200
         /\ req[r].phone = Watched )
       => req[r].otp = live

\* C3 witness: a resend-otp has replaced the code issued before by another
\* code, and the replaced code no longer matches.
C3_Witness ==
  \E r \in Reqs :
    /\ Responded(r, "resend-otp") /\ req[r].status = 200
    /\ req[r].phone = Watched
    /\ req[r].was \in Codes /\ req[r].was # req[r].sent
    /\ VerifyBranch(otps, Watched, req[r].was) = "mismatch"

\* C4 as claimed: in every interleaving an issued code is verified
\* successfully at most once.
C4_SingleUse == ok <= 1

\* C5: the OTP collection holds at most one document per phone.
C5_OneOtpPerPhone == \A p \in Phones : CountOf(otps, p) <= 1

\* C5 witness: an upsert has overwritten the record a verify-otp had looked
\* up, and there is still one record.
C5_Witness ==
  \E r \in Reqs :
    /\ pc[r] = "verify_deleteOtp" /\ stale[r] # "none" /\ req[r].phone = Watched
    /\ CountOf(otps, Watched) = 1 /\ StoredOtp(Watched) # req[r].otp

\* C6: the User collection holds at most one User per phone, and no step
\* removes a User or changes how many Users carry a phone other than by
\* creating the first one.
C6_OneUserPerPhone ==
  /\ [](\A p \in Phones : CountOf(users, p) <= 1)
  /\ [][\A p \in Phones : CountOf(users', p) >= CountOf(users, p)]_vars

\* C6 witness: a send-otp has passed the lookup with no User found, and the
\* User of its phone has been created by another send-otp before it saves.
C6_Witness ==
  \E r \in Reqs :
    pc[r] = "send_saveUser" /\ CountOf(users, req[r].phone) = 1

\* C7: when a send-otp completes, also while another send-otp for the same
\* phone is in flight, the phone has exactly one OTP record and it holds the
\* code of the upsert applied last, which is the code this response returns.
C7_LastWriteWins ==
  /\ \A r \in Reqs :
       (Responded(r, "send-otp") /\ req[r].status = 200)
       => /\ CountOf(otps, req[r].phone) = 1
          /\ StoredOtp(req[r].phone) = req[r].sent
  /\ Found(otps, Watched) => StoredOtp(Watched) = live

\* C7 witness: two send-otp requests for one phone stood at their upsert
\* together; the upsert of the other send-otp was applied first, and this
\* one has now completed over it with another code, which is the one stored.
C7_Witness ==
  \E r \in Reqs :
    /\ Responded(r, "send-otp") /\ req[r].status = 200 /\ req[r].phone = Watched
    /\ stale[r] = "send-otp"
    /\ req[r].was \in Codes /\ req[r].was # req[r].sent
    /\ CountOf(otps, Watched) = 1 /\ StoredOtp(Watched) = req[r].sent

\* C8 as claimed: save-user-details for a phone with no User answers 404
\* whatever its name, dob and gender fields are.
C8_NotFoundWhateverFields ==
  \A r \in Reqs :
    ( /\ Responded(r, "save-user-details")
      /\ req[r].phone \in Phones /\ ~Found(users, req[r].phone)
      /\ req[r].status # 500 )
    => req[r].status = 404

\* C8 amended: save-user-details for a phone with no User answers 404 when
\* name, dob and gender are all non-empty and 400 when one of them is missing
\* or empty; in both cases it creates no User.
C8_NotFoundOrRejected ==
  [][\A r \in Reqs :
       ( /\ pc[r] \in {"idle", "save_updateUser"}
         /\ pc'[r] = "done" /\ req'[r].route = "save-user-details"
         /\ req'[r].phone \in Phones /\ ~Found(users, req'[r].phone)
         /\ req'[r].status # 500 )
       => /\ users' = users
          /\ req'[r].status =
               IF Falsy(req'[r].name) \/ Falsy(req'[r].dob) \/ Falsy(req'[r].gender)
               THEN 400 ELSE 404]_vars

\* C8 witness: a save-user-details with all its fields has answered 404 and
\* there is still no User of its phone.
C8_Witness ==
  \E r \in Reqs :
    /\ Responded(r, "save-user-details") /\ req[r].status = 404
    /\ ~Falsy(req[r].name) /\ ~Found(users, req[r].phone)

\* C9: no step of send-otp changes or removes an existing User document, and
\* when send-otp answers 200 a User of its phone exists.
C9_CreateIfAbsent ==
  [][\A r \in Reqs :
       ( /\ pc[r] \in {"send_findUser", "send_saveUser", "send_upsertOtp"}
         /\ pc'[r] # pc[r] )
       => /\ \A d \in BagToSet(users) : BagIn(d, users')
          /\ (pc'[r] = "done" /\ req'[r].status = 200)
               => CountOf(users', req[r].phone) = 1]_vars

\* C9 witness: send-otp has answered 200 for a phone whose User has its
\* profile filled in.
C9_Witness ==
  \E r \in Reqs :
    /\ Responded(r, "send-otp") /\ req[r].status = 200
    /\ Found(users, req[r].phone)
    /\ FindOne(users, req[r].phone).name = Profile.name

\* C10: resend-otp leaves the User collection unchanged, and unless the store
\* fails it answers 200 with the code it upserted, whether or not a User of
\* the phone exists.
C10_ResendIgnoresUsers ==
  [][\A r \in Reqs :
       (pc[r] = "resend_upsertOtp" /\ pc'[r] # pc[r])
       => /\ users' = users
          /\ pc'[r] = "done"
          /\ req'[r].status \in {200, 500}
          /\ (req'[r].status = 200)
               => /\ CountOf(otps', req[r].phone) = 1
                  /\ FindOne(otps', req[r].phone).otp = req'[r].sent]_vars

\* C10 witness: verify-otp has accepted a code for a phone that has no User.
C10_Witness ==
  \E r \in Reqs :
    /\ Responded(r, "verify-otp") /\ req[r].status = 200
    /\ ~Found(users, req[r].phone)

\* A step of task r in which the handler of route moves on: it takes the
\* request, passes an await or sends the response.
Moves(r, route) ==
  /\ pc'[r] # pc[r]
  /\ pc[r] # "done"
  /\ (IF pc[r] = "idle" THEN req'[r].route ELSE req[r].route) = route

C12_ProfileOnceAfterVerification ==
  [][\A r \in Reqs :
       ( /\ Moves(r, "save-user-details") /\ pc[r] = "save_updateUser"
         /\ req[r].phone = Watched /\ req'[r].status = 200 )
       => /\ verified
          /\ FindOne(users, Watched).name = Undefined
          /\ FindOne(users, Watched).dob = Undefined
          /\ FindOne(users, Watched).gender = Undefined]_vars

\* C13: an OTP record of a phone, once stored, is there in every later state
\* until the delete step of a verify-otp for that phone removes it; that
\* step comes after a lookup that found the presented code in the record,
\* and when no upsert has landed since, the record it removes holds the
\* presented code.  No other step of any handler removes a record, and
\* the schema sets no expiry, so nothing but the handlers acts on the store.
C13_NoExpiry ==
  [][\A p \in Phones :
       (Found(otps, p) /\ ~Found(otps', p))
       => \E r \in Reqs :
            /\ Moves(r, "verify-otp") /\ pc[r] = "verify_deleteOtp"
            /\ req[r].phone = p
            /\ req'[r].status = 200
            /\ (p = Watched /\ stale[r] = "none") => StoredOtp(p) = req[r].otp]_vars

\* C13 witness: after MaxWrong mismatched verify-otp requests, with the
\* profile of the phone saved and a User of another phone created, the
\* record issued last is still stored.
C13_Witness ==
  \E r \in Reqs :
    /\ Responded(r, "verify-otp") /\ req[r].status = 400
    /\ req[r].phone = Watched /\ wrong = MaxWrong
    /\ CountOf(otps, Watched) = 1 /\ StoredOtp(Watched) = live
    /\ Found(users, Watched) /\ FindOne(users, Watched).name = Profile.name
    /\ \E p \in Phones \ {Watched} : Found(users, p)

\* A body field that is missing or empty.
Absent(x) == x \in {Undefined, ""}

\* A required field of request body b is missing or empty.
LacksRequired(b) ==
  \/ Absent(b.phone)
  \/ b.route = "verify-otp" /\ Absent(b.otp)
  \/ b.route = "save-user-details"
       /\ (Absent(b.name) \/ Absent(b.dob) \/ Absent(b.gender))

\* C14: on each of the four routes, a request whose body lacks a required
\* field is answered 400 in the step that takes it, before any await: the
\* handler performs no store operation and both collections are unchanged.
\* A request that lacks none is not answered in that step.
C14_MissingFieldRejected ==
  [][\A r \in Reqs :
       (pc[r] = "idle" /\ pc'[r] # "idle")
       => /\ req'[r].route \in {"send-otp", "resend-otp", "verify-otp",
                                "save-user-details"}
          /\ IF LacksRequired(req'[r])
             THEN /\ pc'[r] = "done"
                  /\ req'[r].status = 400
                  /\ users' = users /\ otps' = otps
             ELSE pc'[r] \notin {"done", "idle"} /\ req'[r].status = 0]_vars

\* C14 witness: a save-user-details with an empty gender has been answered
\* 400 while the User of its phone exists, with its profile still unset.
C14_Witness ==
  \E r \in Reqs :
    /\ Responded(r, "save-user-details") /\ req[r].status = 400
    /\ req[r].phone = Watched /\ req[r].gender = "" /\ ~Absent(req[r].name)
    /\ CountOf(users, Watched) = 1
    /\ FindOne(users, Watched).name = Undefined

\* C15: requests handled one after the other.  A handler never returns
\* without a response, it sends its response once, with status 200, 400, 404
\* or 500, and every request taken is answered.  The step in which a store
\* failure is answered 500 changes neither collection nor another task, and
\* the tasks go on taking and answering requests afterwards.
C15_OneResponseEach ==
  /\ [][\A r \in Reqs :
          /\ (pc[r] \notin {"idle", "done"} /\ pc'[r] # pc[r]) => pc'[r] # "idle"
          /\ (pc[r] # "done" /\ pc'[r] = "done")
               => /\ req[r].status = 0
                  /\ req'[r].status \in {200, 400, 404, 500}
          /\ (pc[r] = "done") => (req'[r] = req[r] \/ pc'[r] = "idle")
          /\ (pc'[r] # "done") => req'[r].status = 0
          /\ ( pc[r] \notin {"idle", "done"} /\ pc'[r] = "done"
               /\ req'[r].status = 500 )
               => /\ users' = users /\ otps' = otps
                  /\ \A q \in Reqs \ {r} : pc'[q] = pc[q] /\ req'[q] = req[q]]_vars
  /\ \A r \in Reqs : (pc[r] # "idle") ~> (pc[r] = "done")

\* C15 witness: a save-user-details has been answered 200 for a User whose
\* send-otp ended 500 at its OTP upsert (no code has ever been issued for
\* the phone): a request served after a store failure.
C15_Witness ==
  \E r \in Reqs :
    /\ Responded(r, "save-user-details") /\ req[r].status = 200
    /\ req[r].phone = Watched
    /\ live = Undefined /\ ~Found(otps, Watched)
    /\ \A q \in Reqs \ {r} : pc[q] = "idle"

\* The decimal numeral of n in six places.
SixDigits(n) ==
  Digit[((n \div 100000) % 10) + 1] \o Digit[((n \div 10000) % 10) + 1]
  \o Digit[((n \div 1000) % 10) + 1] \o Digit[((n \div 100) % 10) + 1]
  \o Digit[((n \div 10) % 10) + 1] \o Digit[(n % 10) + 1]

\* C16: the code a send-otp or resend-otp answers with is the six-place
\* decimal numeral of an integer in 100000..999999, the least and the
\* greatest of the draws give 100000 and 999999, and it is the code the one
\* OTP record of the phone holds when the response is sent; every stored
\* code is such a numeral of six characters.
C16_SixDigitCode ==
  /\ \A r \in Reqs :
       ( (Responded(r, "send-otp") \/ Responded(r, "resend-otp"))
         /\ req[r].status = 200 )
       => /\ req[r].draw \in 0..(OtpSpan - 1)
          /\ OtpBase + req[r].draw \in 100000..999999
          /\ req[r].sent = SixDigits(OtpBase + req[r].draw)
          /\ Len(req[r].sent) = 6
          /\ CountOf(otps, req[r].phone) = 1
          /\ StoredOtp(req[r].phone) = req[r].sent
  /\ \A d \in BagToSet(otps) :
       /\ Len(d.otp) = 6
       /\ \E u \in Draws : d.otp = SixDigits(OtpBase + u)
  /\ {OtpBase + u : u \in Draws} = {100000, 999999}

\* C16 witness: a resend-otp has answered with the greatest code, 999999,
\* and stored it, while the record of another phone holds the least, 100000.
C16_Witness ==
  \E r \in Reqs :
    /\ Responded(r, "resend-otp") /\ req[r].status = 200
    /\ req[r].phone = Watched
    /\ req[r].draw = OtpSpan - 1 /\ req[r].sent = "999999"
    /\ StoredOtp(Watched) = "999999"
    /\ \E p \in Phones \ {Watched} : Found(otps, p) /\ StoredOtp(p) = "100000"

\* C17 as claimed: when the delete step of a verify-otp removes an OTP record,
\* the record removed holds the code the request presented, whatever upserts
\* of send-otp and resend-otp have run since the lookup.
C17_DeletesPresentedCode ==
  [][\A r \in Reqs :
       ( /\ Moves(r, "verify-otp") /\ pc[r] = "verify_deleteOtp"
         /\ Found(otps, req[r].phone) /\ otps' # otps )
       => FindOne(otps, req[r].phone).otp = req[r].otp]_vars

\* C18 as claimed: a request that is answered 400, 404 or 500 has changed
\* neither collection: the step that sends the response changes none, and
\* no earlier step of the request has created a User.
C18_FailureChangesNothing ==
  [][\A r \in Reqs :
       ( /\ pc[r] # "done" /\ pc'[r] = "done"
         /\ req'[r].status \in {400, 404, 500} )
       => /\ users' = users /\ otps' = otps
          /\ ~req'[r].made]_vars
====
